---- MODULE Spec2Model ----
(***************************************************************************)
(* Model of mqconnector/rabbit.py: AMQPConnector (bounded connect retry    *)
(* with capped linear backoff) and RESTConnector (RabbitMQ management API  *)
(* accessors).  The two classes share no state; each has its own           *)
(* specification (SpecConn, SpecRest) over the same variables.             *)
(***************************************************************************)
EXTENDS Integers, Sequences, FiniteSets, TLC

\* ------------------------------------------------------------------ bounds
MaxOption == 5      \* largest max_attempt_retry option given to __init__
MaxOverride == 5    \* largest attempts_retry argument given to connect()
MaxCalls == 2       \* connect() calls made on one AMQPConnector

\* ------------------------------------------------------- Python's None
None == "None"      \* None in a string-typed slot; str.format renders it 'None'
NoneInt == -1       \* None in an integer-typed slot (inputs are >= 0 or None)
NoHandle == <<>>    \* None in the __connection slot

Min(a, b) == IF a < b THEN a ELSE b
Max(a, b) == IF a > b THEN a ELSE b

VARIABLES
    \* AMQPConnector
    option,             \* options.get('max_attempt_retry') given to __init__
    max_attempt_retry,  \* self.__max_attempt_retry
    connection,         \* self.__connection
    pc,                 \* "idle" (no call running), "loop" (inside while True), "done" (returned)
    override,           \* the attempts_retry argument of the running/last call
    attempts_retry,     \* local of connect(): the effective budget
    attempts,           \* local of connect(): the attempt counter
    trace,              \* outcome of each pika.BlockingConnection() of this call
    sleeps,             \* time.sleep() calls of this call: [after |-> attempts, secs |-> seconds]
    outcome,            \* how the last call left the loop: "none", "connected", "gaveup"
    ret,                \* value returned by the last call
    calls,              \* connect() calls started so far
    \* RESTConnector
    host, port, virtual_host, username, password, protocol,
    op,                 \* the last method called, with its arguments
    requests,           \* URLs passed to requests.get() by the last method call
    answers,            \* what requests.get() did for each of them
    raised,             \* TRUE when the last method call ended in an exception
    result              \* value returned by the last method call

connVars == <<option, max_attempt_retry, connection, pc, override, attempts_retry,
              attempts, trace, sleeps, outcome, ret, calls>>
restVars == <<host, port, virtual_host, username, password, protocol,
              op, requests, answers, raised, result>>
vars == <<connVars, restVars>>

\* ================================================================ AMQPConnector

DefaultMaxAttemptRetry == 3     \* class attribute __max_attempt_retry
BackoffCap == 30
BackoffStep == 2

\* __init__: the option's value is never read; the attribute is clamped against 0
InitMaxAttemptRetry(opt) ==
    IF opt # NoneInt THEN Max(DefaultMaxAttemptRetry, 0) ELSE DefaultMaxAttemptRetry

\* connect(): the effective budget
EffectiveBudgetUnclamped(arg, configured) ==
    IF arg = NoneInt THEN configured ELSE arg

EffectiveBudget(arg, configured) ==
    IF arg = NoneInt THEN configured ELSE Min(arg, configured)

\* connect(): the test that ends the loop after a failed attempt
GiveUpEarly(n, budget) == n >= budget

GiveUp(n, budget) == n > budget

\* connect(): the argument of time.sleep
BackoffBeforeIncrement(n) == Min((n - 1) * BackoffStep, BackoffCap)

Backoff(n) == Min(n * BackoffStep, BackoffCap)

\* the handle pika.BlockingConnection() returns on attempt k of call c
Handle(c, k) == <<c, k>>

ConnInit ==
    /\ option \in {NoneInt} \cup (0..MaxOption)
    /\ max_attempt_retry = InitMaxAttemptRetry(option)
    /\ connection = NoHandle
    /\ pc = "idle"
    /\ override = NoneInt
    /\ attempts_retry = 0
    /\ attempts = 0
    /\ trace = <<>>
    /\ sleeps = <<>>
    /\ outcome = "none"
    /\ ret = NoHandle
    /\ calls = 0
    \* the RESTConnector: RESTConnector(), never used
    /\ host = None /\ port = NoneInt /\ virtual_host = None
    /\ username = None /\ password = None /\ protocol = "https"
    /\ op = <<"__init__">> /\ requests = <<>> /\ answers = <<>>
    /\ raised = FALSE /\ result = [type |-> "none", v |-> <<>>]

\* connect(attempts_retry): up to entering the loop
Connect(arg) ==
    /\ pc \in {"idle", "done"}
    /\ calls < MaxCalls
    /\ calls' = calls + 1
    /\ override' = arg
    /\ attempts_retry' = EffectiveBudget(arg, max_attempt_retry)
    /\ attempts' = 0
    /\ trace' = <<>>
    /\ sleeps' = <<>>
    /\ outcome' = "none"
    /\ pc' = "loop"
    /\ UNCHANGED <<option, max_attempt_retry, connection, ret>>
    /\ UNCHANGED restVars

\* one iteration whose BlockingConnection() succeeds: store, break, return
AttemptSucceeds ==
    /\ pc = "loop"
    /\ attempts' = attempts + 1
    /\ trace' = Append(trace, "ok")
    /\ connection' = Handle(calls, attempts + 1)
    /\ outcome' = "connected"
    /\ ret' = connection'
    /\ pc' = "done"
    /\ UNCHANGED <<option, max_attempt_retry, override, attempts_retry, sleeps, calls>>
    /\ UNCHANGED restVars

\* one iteration whose BlockingConnection() raises, budget left: sleep, loop
AttemptFailsRetry ==
    /\ pc = "loop"
    /\ ~GiveUp(attempts + 1, attempts_retry)
    /\ attempts' = attempts + 1
    /\ trace' = Append(trace, "fail")
    /\ sleeps' = Append(sleeps, [after |-> attempts + 1, secs |-> Backoff(attempts + 1)])
    /\ UNCHANGED <<option, max_attempt_retry, connection, pc, override, attempts_retry,
                   outcome, ret, calls>>
    /\ UNCHANGED restVars

\* one iteration whose BlockingConnection() raises, budget spent: break, return
AttemptFailsGiveUp ==
    /\ pc = "loop"
    /\ GiveUp(attempts + 1, attempts_retry)
    /\ attempts' = attempts + 1
    /\ trace' = Append(trace, "fail")
    /\ outcome' = "gaveup"
    /\ ret' = connection
    /\ pc' = "done"
    /\ UNCHANGED <<option, max_attempt_retry, connection, override, attempts_retry,
                   sleeps, calls>>
    /\ UNCHANGED restVars

\* ================================================================ RESTConnector

MaxRows == 1        \* records in an upstream listing
MaxBindings == 1    \* records in an upstream binding listing

DefaultAmqpPort == 5672

\* ------------------------------------------------ what the transport can answer
\* requests.get() either returns a response with a status code or raises
Statuses == {"200", "404", "500", "fault"}
ErrorBody == <<>>   \* the body of any other answer: only logged, never decoded

\* keys an upstream record may carry: two recognized ones and one no resource kind has
SampleKeys == {"name", "consumers", "extra"}
UpstreamValue(k) == CASE k = "name" -> "n1" [] k = "consumers" -> "2" [] OTHER -> "x"
Row(D) == [k \in D |-> UpstreamValue(k)]
Rows == {Row(D) : D \in SUBSET SampleKeys}
Listings == UNION {[1..n -> Rows] : n \in 0..MaxRows}
BindingListings == UNION {[1..n -> {"b1"}] : n \in 0..MaxBindings}
OverviewKeys == {"object_totals", "message_stats", "queue_totals"}
Overviews == {[k \in D |-> "{}"] : D \in {OverviewKeys, OverviewKeys \cup {"extra"},
                                          OverviewKeys \ {"message_stats"}}}

\* the answers the transport can give to a request whose 200 bodies are `bodies`
Responses(bodies) ==
    {[status |-> "200", body |-> b] : b \in bodies}
        \cup {[status |-> s, body |-> ErrorBody] : s \in Statuses \ {"200"}}

\* ------------------------------------------------ arguments
Hosts == {None, "h0"}
Ports == {NoneInt, 15672}
Names == {None, "s0"}
SslArgs == {"True", "False", None}
VhostArgs == {None, "v"}
ObjectNames == {"q1"}
Uris == [user : {"u1"}, pass : {"p1"}, host : {"h1", "h2"},
         port : {NoneInt, 5673}, vhost : {"v1"}]

\* pika.URLParameters(amqp_uri): the fields of the URI, the port defaulted
URLParameters(uri) ==
    [host |-> uri.host,
     port |-> IF uri.port = NoneInt THEN DefaultAmqpPort ELSE uri.port,
     virtual_host |-> uri.vhost,
     username |-> uri.user,
     password |-> uri.pass]

\* ------------------------------------------------ URL construction
NoApi == <<>>       \* api=None (no caller passes the empty string)

\* a URL is the sequence of the pieces str.format joins
get_api_url(api) ==
    LET host_and_port == IF port # NoneInt THEN <<":", ToString(port)>> ELSE <<host>>
    IN  IF api = NoApi
        THEN <<protocol, "://">> \o host_and_port \o <<"/api">>
        ELSE <<protocol, "://">> \o host_and_port \o <<"/api", "/">> \o api

\* ------------------------------------------------ request dispatch
\* make_get_request(url) when requests.get answers r: raises on a transport fault,
\* None on a status other than 200, else the body
make_get_request(r) ==
    [raised |-> r.status = "fault", isNone |-> r.status # "200", text |-> r.body]

\* how a method call ends
Return(type, v, reqs) == [raised |-> FALSE, val |-> [type |-> type, v |-> v], reqs |-> reqs]
Raise(reqs) == [raised |-> TRUE, val |-> [type |-> "none", v |-> <<>>], reqs |-> reqs]

\* ------------------------------------------------ normalization
ConnectionKeys == {"vhost", "user", "name", "peer_host", "peer_port", "host", "port",
                   "client_properties", "channel_max", "timeout", "protocol",
                   "auth_mechanism", "channels", "state", "send_pend", "send_cnt",
                   "recv_cnt", "connected_at"}
ExchangeKeys == {"name", "vhost", "type", "durable", "auto_delete", "internal",
                 "message_stats", "arguments"}
QueueKeys == {"name", "vhost", "exclusive", "auto_delete", "durable",
              "messages_persistent", "messages_unacknowledged_ram", "messages_ready_ram",
              "messages_ram", "consumers", "state", "idle_since", "memory",
              "message_stats", "arguments"}

\* the default of row.get(key, default)
Default(k) ==
    CASE k = "consumers" -> "0"
      [] k \in {"message_stats", "arguments"} -> "{}"
      [] OTHER -> None

\* {key: row.get(key, default) for each key of the literal}
Normalize(row, keys) ==
    [k \in keys |-> IF k \in DOMAIN row THEN row[k] ELSE Default(k)]

NormalizeAll(rows, keys) == [i \in DOMAIN rows |-> Normalize(rows[i], keys)]

\* ------------------------------------------------ resource paths
VhostsPath == <<"vhosts">>
OverviewPath == <<"overview">>
ConnectionsPath(vhost) ==
    IF vhost = None THEN <<"connections">> ELSE <<"vhosts", "/", vhost, "/", "connections">>
ConsumersPath(vhost) ==
    IF vhost = None THEN <<"consumers">> ELSE <<"consumers", "/", vhost>>
ExchangesPath(vhost) ==
    IF vhost = None THEN <<"exchanges">> ELSE <<"exchanges", "/", vhost>>
ExchangePath(vhost, name) == <<"exchanges", "/", vhost, "/", name>>
ExchangeBindingSourcePath(vhost, name) ==
    <<"exchanges", "/", vhost, "/", name, "/", "bindings", "/", "source">>
ExchangeBindingDestinationPath(vhost, name) ==
    <<"exchanges", "/", vhost, "/", name, "/", "bindings", "/", "destination">>
QueuesPath(vhost) ==
    IF vhost = None THEN <<"queues">> ELSE <<"queues", "/", vhost>>
QueuePath(vhost, name) == <<"queues", "/", vhost, "/", name>>
QueueBindingPathNoSuffix(vhost, name) == <<"queues", "/", vhost, "/", name>>
QueueBindingPath(vhost, name) == <<"queues", "/", vhost, "/", name, "/", "bindings">>

\* ------------------------------------------------ accessors
\* Each takes the answers the transport gives to its successive requests and
\* yields how the call ends: the value returned (or the raise) and the URLs requested.

get_list_vhosts(name_only, r) ==
    LET url == get_api_url(VhostsPath)
        data == make_get_request(r)
    IN  IF data.raised THEN Raise(<<url>>)
        ELSE IF data.isNone THEN Return("list", <<>>, <<url>>)
        ELSE IF ~name_only THEN Return("list", data.text, <<url>>)
        ELSE IF \E i \in DOMAIN data.text : "name" \notin DOMAIN data.text[i]
             THEN Raise(<<url>>)    \* row['name']: KeyError
        ELSE Return("list", [i \in DOMAIN data.text |-> data.text[i]["name"]], <<url>>)

get_overview(r) ==
    LET url == get_api_url(OverviewPath)
        data == make_get_request(r)
    IN  IF data.raised THEN Raise(<<url>>)
        ELSE IF data.isNone THEN Return("dict", <<>>, <<url>>)
        ELSE IF ~(OverviewKeys \subseteq DOMAIN data.text)
             THEN Raise(<<url>>)    \* data['message_stats']: KeyError
        ELSE Return("dict", [k \in OverviewKeys |-> data.text[k]], <<url>>)

get_connections(vhost, summary, r) ==
    LET url == get_api_url(ConnectionsPath(vhost))
        data == make_get_request(r)
    IN  IF data.raised THEN Raise(<<url>>)
        ELSE IF data.isNone THEN Return("list", <<>>, <<url>>)
        ELSE IF ~summary THEN Return("list", data.text, <<url>>)
        ELSE Return("list", NormalizeAll(data.text, ConnectionKeys), <<url>>)

get_consumers(vhost, r) ==
    LET url == get_api_url(ConsumersPath(vhost))
        data == make_get_request(r)
    IN  IF data.raised THEN Raise(<<url>>)
        ELSE IF data.isNone THEN Return("list", <<>>, <<url>>)
        ELSE Return("list", data.text, <<url>>)

get_exchanges(vhost, r) ==
    LET url == get_api_url(ExchangesPath(vhost))
        data == make_get_request(r)
    IN  IF data.raised THEN Raise(<<url>>)
        ELSE IF data.isNone THEN Return("list", <<>>, <<url>>)
        ELSE Return("list", NormalizeAll(data.text, ExchangeKeys), <<url>>)

get_exchange_binding_source(vhost, name, r) ==
    LET url == get_api_url(ExchangeBindingSourcePath(vhost, name))
        data == make_get_request(r)
    IN  IF data.raised THEN Raise(<<url>>)
        ELSE IF data.isNone THEN Return("list", <<>>, <<url>>)
        ELSE Return("list", data.text, <<url>>)

get_exchange_binding_destination(vhost, name, r) ==
    LET url == get_api_url(ExchangeBindingDestinationPath(vhost, name))
        data == make_get_request(r)
    IN  IF data.raised THEN Raise(<<url>>)
        ELSE IF data.isNone THEN Return("list", <<>>, <<url>>)
        ELSE Return("list", data.text, <<url>>)

\* the dict literal evaluates 'source' before 'destination'
get_exchange(vhost, name, get_binding, r1, r2, r3) ==
    LET url == get_api_url(ExchangePath(vhost, name))
        data == make_get_request(r1)
        src == get_exchange_binding_source(vhost, name, r2)
        dst == get_exchange_binding_destination(vhost, name, r3)
    IN  IF data.raised THEN Raise(<<url>>)
        ELSE IF data.isNone THEN Return("dict", <<>>, <<url>>)
        ELSE IF ~get_binding THEN Return("dict", data.text, <<url>>)
        ELSE IF src.raised THEN Raise(<<url>> \o src.reqs)
        ELSE IF dst.raised THEN Raise(<<url>> \o src.reqs \o dst.reqs)
        ELSE Return("dict",
                    ("bindings" :> [source |-> src.val.v, destination |-> dst.val.v])
                        @@ data.text,
                    <<url>> \o src.reqs \o dst.reqs)

get_queues(vhost, r) ==
    LET url == get_api_url(QueuesPath(vhost))
        data == make_get_request(r)
    IN  IF data.raised THEN Raise(<<url>>)
        ELSE IF data.isNone THEN Return("list", <<>>, <<url>>)
        ELSE Return("list", NormalizeAll(data.text, QueueKeys), <<url>>)

get_queue_binding(vhost, name, r) ==
    LET url == get_api_url(QueueBindingPath(vhost, name))
        data == make_get_request(r)
    IN  IF data.raised THEN Raise(<<url>>)
        ELSE IF data.isNone THEN Return("list", <<>>, <<url>>)
        ELSE Return("list", data.text, <<url>>)

get_queue(vhost, name, get_binding, r1, r2) ==
    LET url == get_api_url(QueuePath(vhost, name))
        data == make_get_request(r1)
        bnd == get_queue_binding(vhost, name, r2)
    IN  IF data.raised THEN Raise(<<url>>)
        ELSE IF data.isNone THEN Return("dict", <<>>, <<url>>)
        ELSE IF ~get_binding THEN Return("dict", Normalize(data.text, QueueKeys), <<url>>)
        ELSE IF bnd.raised THEN Raise(<<url>> \o bnd.reqs)
        ELSE Return("dict",
                    ("bindings" :> bnd.val.v) @@ Normalize(data.text, QueueKeys),
                    <<url>> \o bnd.reqs)

\* ------------------------------------------------ construction and configuration
\* use_ssl(use_ssl): the protocol it leaves
use_ssl(current, arg) ==
    IF arg = None THEN current ELSE IF arg = "True" THEN "https" ELSE "http"

\* __init__(host, port, vhost, username, password, use_ssl); __protocol starts as None
RestInit ==
    /\ host \in Hosts
    /\ port \in Ports
    /\ virtual_host \in Names
    /\ username \in Names
    /\ password \in Names
    /\ \E arg \in SslArgs : protocol = use_ssl(None, arg)
    /\ op = <<"__init__">>
    /\ requests = <<>>
    /\ answers = <<>>
    /\ raised = FALSE
    /\ result = [type |-> "none", v |-> <<>>]
    \* the AMQPConnector: AMQPConnector(amqp_uri), never used
    /\ option = NoneInt /\ max_attempt_retry = InitMaxAttemptRetry(NoneInt)
    /\ connection = NoHandle /\ pc = "idle" /\ override = NoneInt
    /\ attempts_retry = 0 /\ attempts = 0 /\ trace = <<>> /\ sleeps = <<>>
    /\ outcome = "none" /\ ret = NoHandle /\ calls = 0

config == <<host, port, virtual_host, username, password, protocol>>

\* the caller still holds what the last call returned or raised
Pending == raised \/ result.type # "none"

UseSsl(arg) ==
    /\ ~Pending
    /\ protocol' = use_ssl(protocol, arg)
    /\ op' = <<"use_ssl", arg>>
    /\ requests' = <<>> /\ answers' = <<>> /\ raised' = FALSE
    /\ result' = [type |-> "none", v |-> <<>>]
    /\ UNCHANGED <<host, port, virtual_host, username, password>>
    /\ UNCHANGED connVars

GetParametersFromAmqpUri(uri) ==
    LET parameters == URLParameters(uri)
    IN  /\ ~Pending
        /\ host' = parameters.host
        /\ virtual_host' = parameters.virtual_host
        /\ username' = parameters.username
        /\ password' = parameters.password
        /\ op' = <<"get_parameters_from_amqp_uri", uri>>
        /\ requests' = <<>> /\ answers' = <<>> /\ raised' = FALSE
        /\ result' = [type |-> "none", v |-> <<>>]
        /\ UNCHANGED <<port, protocol>>
        /\ UNCHANGED connVars

\* the caller drops what the last call gave it; the connector keeps nothing of a call
Discard ==
    /\ Pending
    /\ op' = <<"idle">>
    /\ requests' = <<>> /\ answers' = <<>> /\ raised' = FALSE
    /\ result' = [type |-> "none", v |-> <<>>]
    /\ UNCHANGED config
    /\ UNCHANGED connVars

GetApiUrl(api) ==
    /\ ~Pending
    /\ op' = <<"get_api_url", api>>
    /\ requests' = <<>> /\ answers' = <<>> /\ raised' = FALSE
    /\ result' = [type |-> "str", v |-> get_api_url(api)]
    /\ UNCHANGED config
    /\ UNCHANGED connVars

\* a method call that issues requests: what it leaves behind
Called(call, out, rs) ==
    /\ ~Pending
    /\ op' = call
    /\ requests' = out.reqs
    /\ answers' = SubSeq(rs, 1, Len(out.reqs))
    /\ raised' = out.raised
    /\ result' = out.val
    /\ UNCHANGED config
    /\ UNCHANGED connVars

GetListVhosts ==
    \E name_only \in BOOLEAN, r \in Responses(Listings) :
        Called(<<"get_list_vhosts", name_only>>, get_list_vhosts(name_only, r), <<r>>)

GetOverview ==
    \E r \in Responses(Overviews) :
        Called(<<"get_overview">>, get_overview(r), <<r>>)

GetConnections ==
    \E vhost \in VhostArgs, summary \in BOOLEAN, r \in Responses(Listings) :
        Called(<<"get_connections", vhost, summary>>,
                   get_connections(vhost, summary, r), <<r>>)

GetConsumers ==
    \E vhost \in VhostArgs, r \in Responses(Listings) :
        Called(<<"get_consumers", vhost>>, get_consumers(vhost, r), <<r>>)

GetExchanges ==
    \E vhost \in VhostArgs, r \in Responses(Listings) :
        Called(<<"get_exchanges", vhost>>, get_exchanges(vhost, r), <<r>>)

GetExchange ==
    \E vhost \in VhostArgs \ {None}, name \in ObjectNames, get_binding \in BOOLEAN,
       r1 \in Responses(Rows), r2 \in Responses(BindingListings),
       r3 \in Responses(BindingListings) :
        Called(<<"get_exchange", vhost, name, get_binding>>,
                   get_exchange(vhost, name, get_binding, r1, r2, r3), <<r1, r2, r3>>)

GetExchangeBindingSource ==
    \E vhost \in VhostArgs \ {None}, name \in ObjectNames, r \in Responses(BindingListings) :
        Called(<<"get_exchange_binding_source", vhost, name>>,
                   get_exchange_binding_source(vhost, name, r), <<r>>)

GetExchangeBindingDestination ==
    \E vhost \in VhostArgs \ {None}, name \in ObjectNames, r \in Responses(BindingListings) :
        Called(<<"get_exchange_binding_destination", vhost, name>>,
                   get_exchange_binding_destination(vhost, name, r), <<r>>)

GetQueues ==
    \E vhost \in VhostArgs, r \in Responses(Listings) :
        Called(<<"get_queues", vhost>>, get_queues(vhost, r), <<r>>)

GetQueue ==
    \E vhost \in VhostArgs \ {None}, name \in ObjectNames, get_binding \in BOOLEAN,
       r1 \in Responses(Rows), r2 \in Responses(BindingListings) :
        Called(<<"get_queue", vhost, name, get_binding>>,
                   get_queue(vhost, name, get_binding, r1, r2), <<r1, r2>>)

GetQueueBinding ==
    \E vhost \in VhostArgs \ {None}, name \in ObjectNames, r \in Responses(BindingListings) :
        Called(<<"get_queue_binding", vhost, name>>,
                   get_queue_binding(vhost, name, r), <<r>>)

\* ================================================================ specifications

ConnNext ==
    \/ \E arg \in {NoneInt} \cup (0..MaxOverride) : Connect(arg)
    \/ AttemptSucceeds
    \/ AttemptFailsRetry
    \/ AttemptFailsGiveUp

SpecConn == ConnInit /\ [][ConnNext]_vars

RestNext ==
    \/ \E arg \in SslArgs : UseSsl(arg)
    \/ \E uri \in Uris : GetParametersFromAmqpUri(uri)
    \/ \E api \in {NoApi, QueuesPath(None), QueuePath("v", "q1")} : GetApiUrl(api)
    \/ GetListVhosts
    \/ GetOverview
    \/ GetConnections
    \/ GetConsumers
    \/ GetExchanges
    \/ GetExchange
    \/ GetExchangeBindingSource
    \/ GetExchangeBindingDestination
    \/ GetQueues
    \/ GetQueue
    \/ GetQueueBinding
    \/ Discard

SpecRest == RestInit /\ [][RestNext]_vars

\* ================================================================ claims: AMQPConnector

AllFailed == \A i \in DOMAIN trace : trace[i] = "fail"

\* C1: with max_attempt_retry = N >= 0 given at construction (3 when none is given)
\* and every attempt failing, connect() with no override gives up after exactly N+1
\* attempts.
C1_ConfiguredBudgetAttempts ==
    (pc = "done" /\ outcome = "gaveup" /\ override = NoneInt) =>
        attempts = (IF option = NoneInt THEN DefaultMaxAttemptRetry ELSE option) + 1

\* C2: a connect() call in which every attempt fails returns None, also after an
\* earlier successful connect() on the same instance.
C2_AllFailReturnsNone ==
    (pc = "done" /\ outcome = "gaveup") => ret = NoHandle

\* C3: with an effective budget >= 1, a connect() whose attempts 1..k-1 fail and whose
\* attempt k <= budget+1 succeeds returns the handle of attempt k after exactly k
\* attempts: the loop does not give up before attempt budget+1 has been made, and
\* makes no attempt after the success.
C3_SuccessOnAttemptK ==
    attempts_retry >= 1 =>
        /\ Len(trace) = attempts
        /\ pc = "loop" => (AllFailed /\ attempts <= attempts_retry)
        /\ (pc = "done" /\ outcome = "gaveup") => attempts = attempts_retry + 1
        /\ (pc = "done" /\ outcome = "connected") =>
              /\ attempts <= attempts_retry + 1
              /\ trace[attempts] = "ok"
              /\ \A i \in 1..(attempts - 1) : trace[i] = "fail"
              /\ ret = Handle(calls, attempts)
              /\ connection = ret

C3_Witness ==
    /\ pc = "done" /\ outcome = "connected"
    /\ attempts_retry >= 1
    /\ attempts = attempts_retry + 1
    /\ ret = Handle(calls, attempts)

\* C4: the j-th sleep of a connect() call follows failed attempt j and lasts
\* min(j*2, 30) seconds: 2, 4, 6 after attempts 1, 2, 3, and the sleep expression
\* gives 30 for attempt 20.
BackoffTable == [i \in {1, 2, 3, 20} |-> CASE i = 1 -> 2 [] i = 2 -> 4 [] i = 3 -> 6 [] OTHER -> 30]

C4_BackoffDelay ==
    /\ \A j \in DOMAIN sleeps :
          /\ sleeps[j].after = j
          /\ trace[j] = "fail"
          /\ j \in DOMAIN BackoffTable => sleeps[j].secs = BackoffTable[j]
    /\ pc = "loop" => Len(sleeps) = attempts
    /\ pc = "done" => Len(sleeps) = attempts - 1
    /\ \A i \in DOMAIN BackoffTable : Backoff(i) = BackoffTable[i]

C4_Witness ==
    /\ Len(sleeps) = 3
    /\ sleeps[3] = [after |-> 3, secs |-> 6]

\* C5: the effective budget of connect(v) is min(v, configured max) for v >= 0 and the
\* configured max when no override is given; a call whose attempts all fail makes
\* exactly budget+1 attempts, so connect(0) makes exactly one.
C5_EffectiveBudget ==
    pc \in {"loop", "done"} =>
        /\ override = NoneInt => attempts_retry = max_attempt_retry
        /\ (override # NoneInt /\ override <= max_attempt_retry) => attempts_retry = override
        /\ (override # NoneInt /\ override > max_attempt_retry) =>
              attempts_retry = max_attempt_retry
        /\ (pc = "done" /\ outcome = "gaveup") =>
              (AllFailed /\ attempts = attempts_retry + 1)
        /\ (pc = "done" /\ outcome = "gaveup" /\ override = 0) => attempts = 1

C5_Witness ==
    /\ pc = "done" /\ outcome = "gaveup"
    /\ override > max_attempt_retry
    /\ attempts = max_attempt_retry + 1

\* ================================================================ claims: RESTConnector

ListAccessors == {"get_list_vhosts", "get_connections", "get_consumers", "get_exchanges",
                  "get_exchange_binding_source", "get_exchange_binding_destination",
                  "get_queues", "get_queue_binding"}
DictAccessors == {"get_overview", "get_exchange", "get_queue"}

\* C6: an accessor whose GET ends in a status other than 200 or in a transport fault
\* returns its empty result ([] for listings, {} for singular lookups) and does not
\* raise.
C6_FailureGivesEmpty ==
    (op[1] \in ListAccessors \cup DictAccessors /\ answers[1].status # "200") =>
        /\ ~raised
        /\ result = [type |-> IF op[1] \in ListAccessors THEN "list" ELSE "dict", v |-> <<>>]

\* a URL of the management API for resource path p, whatever precedes '/api'
IsApiUrl(url, p) ==
    LET tail == <<"/api", "/">> \o p
    IN  /\ Len(url) >= Len(tail)
        /\ SubSeq(url, Len(url) - Len(tail) + 1, Len(url)) = tail

\* the record row.get(k, default) gives for every recognized key
Recognized(rec, row, keys) ==
    \A k \in keys : rec[k] = (IF k \in DOMAIN row THEN row[k] ELSE Default(k))

\* C7: get_queue(vhost, name, get_binding=True) whose detail request returns 200
\* issues exactly 2 GETs, detail then bindings; get_exchange with get_binding=True
\* issues 3, detail, source bindings, destination bindings; the binding results sit
\* under 'bindings', and a binding request answered with a status other than 200
\* leaves an empty list there while the rest of the record is the detail record.
C7_CompositeLookup ==
    /\ (op[1] = "get_queue" /\ op[4] /\ answers[1].status = "200") =>
          /\ Len(requests) = 2
          /\ IsApiUrl(requests[1], <<"queues", "/", op[2], "/", op[3]>>)
          /\ IsApiUrl(requests[2], <<"queues", "/", op[2], "/", op[3], "/", "bindings">>)
          /\ answers[2].status # "fault" =>
                /\ ~raised
                /\ result.type = "dict"
                /\ DOMAIN result.v = QueueKeys \cup {"bindings"}
                /\ result.v["bindings"] =
                      (IF answers[2].status = "200" THEN answers[2].body ELSE <<>>)
                /\ Recognized(result.v, answers[1].body, QueueKeys)
    /\ (op[1] = "get_exchange" /\ op[4] /\ answers[1].status = "200"
            /\ \A i \in DOMAIN answers : answers[i].status # "fault") =>
          /\ Len(requests) = 3
          /\ IsApiUrl(requests[1], <<"exchanges", "/", op[2], "/", op[3]>>)
          /\ IsApiUrl(requests[2],
                      <<"exchanges", "/", op[2], "/", op[3], "/", "bindings", "/", "source">>)
          /\ IsApiUrl(requests[3],
                      <<"exchanges", "/", op[2], "/", op[3], "/", "bindings", "/", "destination">>)
          /\ ~raised
          /\ result.type = "dict"
          /\ DOMAIN result.v = DOMAIN answers[1].body \cup {"bindings"}
          /\ result.v["bindings"] =
                [source |-> IF answers[2].status = "200" THEN answers[2].body ELSE <<>>,
                 destination |-> IF answers[3].status = "200" THEN answers[3].body ELSE <<>>]
          /\ \A k \in DOMAIN answers[1].body : result.v[k] = answers[1].body[k]

C7_Witness ==
    /\ op[1] = "get_queue" /\ op[4]
    /\ Len(answers) = 2
    /\ answers[1].status = "200" /\ answers[2].status = "404"
    /\ ~raised
    /\ result.v["bindings"] = <<>>
    /\ result.v["name"] = "n1"

\* C8: get_api_url(p) is '{scheme}://{host}/api/{p}' with no port configured and
\* '{scheme}://{host}:{port}/api/{p}' with one (no '/{p}' when p is None).
C8_ApiUrl ==
    op[1] = "get_api_url" =>
        result.v = <<protocol, "://", host>>
                       \o (IF port # NoneInt THEN <<":", ToString(port)>> ELSE <<>>)
                       \o <<"/api">>
                       \o (IF op[2] = NoApi THEN <<>> ELSE <<"/">> \o op[2])

\* C9: after get_parameters_from_amqp_uri(uri), host, port, virtual host, username and
\* password all hold the values derived from uri.
C9_AllFieldsFromUri ==
    op[1] = "get_parameters_from_amqp_uri" =>
        LET parameters == URLParameters(op[2])
        IN  /\ host = parameters.host
            /\ port = parameters.port
            /\ virtual_host = parameters.virtual_host
            /\ username = parameters.username
            /\ password = parameters.password

\* a record with exactly the recognized keys, each upstream value or its default
Normalized(rec, row, keys) == DOMAIN rec = keys /\ Recognized(rec, row, keys)

\* C10: on a 200 answer every record a normalizing accessor returns has exactly the
\* recognized keys of its resource kind (plus 'bindings' when requested): other
\* upstream keys are dropped and absent recognized keys carry their default.
C10_FixedKeys ==
    (op[1] \in ListAccessors \cup DictAccessors /\ ~raised /\ answers[1].status = "200") =>
        LET up == answers[1].body
            out == result.v
        IN  /\ (op[1] = "get_connections" /\ op[3]) =>
                  \A i \in DOMAIN up : Normalized(out[i], up[i], ConnectionKeys)
            /\ op[1] = "get_consumers" =>
                  \A i \in DOMAIN up : "extra" \notin DOMAIN out[i]
            /\ op[1] = "get_exchanges" =>
                  \A i \in DOMAIN up : Normalized(out[i], up[i], ExchangeKeys)
            /\ op[1] = "get_queues" =>
                  \A i \in DOMAIN up : Normalized(out[i], up[i], QueueKeys)
            /\ op[1] = "get_exchange" =>
                  /\ DOMAIN out = ExchangeKeys \cup (IF op[4] THEN {"bindings"} ELSE {})
                  /\ Recognized(out, up, ExchangeKeys)
            /\ op[1] = "get_queue" =>
                  /\ DOMAIN out = QueueKeys \cup (IF op[4] THEN {"bindings"} ELSE {})
                  /\ Recognized(out, up, QueueKeys)

====
